---------------------------- MODULE Spec2Model ----------------------------
(***************************************************************************)
(* A model of the bar construction engine of feat (src/src/bars.rs), of    *)
(* the batch driver and the daily volatility estimator of src/src/main.rs. *)
(*                                                                         *)
(* Prices, volumes and notionals are f64 in the source; the model uses     *)
(* integers (and exact fractions for the volatility estimator), so a       *)
(* statement checked here is a statement about the arithmetic the code     *)
(* asks for, not about floating-point rounding.                            *)
(*                                                                         *)
(* A raw timestamp token is modelled as the number of minutes it denotes   *)
(* since midnight: dollar_bars only compares tokens for equality,          *)
(* time_bars parses them and takes the minute of the hour.                 *)
(***************************************************************************)
EXTENDS Integers, Sequences, FiniteSets, TLC

(***************************************************************************)
(* Bounds of the model.                                                    *)
(***************************************************************************)
\* ticks read by one run of time_bars / dollar_bars
MaxTicks == 3
\* tick files of one instrument
MaxFiles == 2
\* lines of the symbol list of a batch
MaxSymbols == 3
\* ticks read by one run inside a batch
MaxBatchTicks == 1
\* days daily_vol counts
MaxDays == 22
\* ticks read by one run whose output directory holds other files
MaxSweepTicks == 2
\* lines one run of iqfeed_ticks reads after the protocol line
MaxLines == 2
\* runs of iqfeed_ticks for the instrument
MaxRuns == 2

(***************************************************************************)
(* Inputs.                                                                 *)
(***************************************************************************)
\* String::from("") (bar_open_time) and Vec::new() (prev_tick_timestamp):
\* the token no tick carries
EmptyToken == -1
\* chrono::MIN_DATETIME, the bartime before any tick
MinDateTime == -2
\* Duration::minutes(5), the age above which the sweep removes a file
RetentionMinutes == 5

Prices == {0, 1, 2}
\* the volumes of a dollar_bars input, and those of a time_bars input (where
\* nothing is decided by the volume)
DollarVolumes == {1, 2}
TimeVolumes == {2}
\* raw timestamp tokens of a dollar_bars input
DollarTokens == {1, 2}
\* raw timestamp tokens of a time_bars input, minutes since midnight:
\* 00:15, 00:16, 01:00 and 01:15
TimeTokens == {15, 16, 60, 75}
\* opts.dollar_threshold (main passes 7000000.0) and opts.multiply
Thresholds == {2, 4}
Multiplies == {1}
\* the interval argument of time_bars (main passes "15")
Intervals == {15}
\* which field of a row does not parse, if any
BadFields == {"last", "volume", "date_time"}

Tick(ts, p, v, b) == [date_time |-> ts, last |-> p, last_size |-> v, bad |-> b]

GoodTicks(tokens, volumes) ==
    {Tick(ts, p, v, "none") : ts \in tokens, p \in Prices, v \in volumes}

\* one malformed row per field is enough: the parse fails whatever the rest holds
BadTicks(tokens, fields) == {Tick(CHOOSE ts \in tokens : TRUE, 1, 1, b) : b \in fields}

\* the rows a tick file of the policy may hold; dollar_bars never parses the
\* timestamp (bars.rs:181), so it has no malformed timestamp
AnyTicksOf(policy) ==
    IF policy = "dollar"
    THEN GoodTicks(DollarTokens, DollarVolumes)
            \cup BadTicks(DollarTokens, {"last", "volume"})
    ELSE GoodTicks(TimeTokens, TimeVolumes) \cup BadTicks(TimeTokens, BadFields)

\* the rows a tick file may hold in a batch: one well-formed row (price 1,
\* volume 2, which reaches the lower threshold and not the higher one; 00:15,
\* a boundary minute) and one row whose price does not parse
BatchTicksOf(policy) ==
    LET ts == IF policy = "dollar" THEN 1 ELSE 15
    IN  {Tick(ts, 1, 2, "none"), Tick(ts, 1, 1, "last")}

\* the rows a tick file may hold in a run whose output directory holds other
\* files: two well-formed rows (each reaches the lower threshold; 00:15 and
\* 00:30 are boundary minutes) and one malformed row per field
SweepTicksOf(policy) ==
    IF policy = "dollar"
    THEN {Tick(1, 1, 2, "none"), Tick(2, 1, 2, "none")}
            \cup BadTicks({1}, {"last", "volume"})
    ELSE {Tick(15, 1, 2, "none"), Tick(30, 1, 2, "none")}
            \cup BadTicks({15}, BadFields)

TicksOf(fd, policy) ==
    IF fd = "batch" THEN BatchTicksOf(policy)
    ELSE IF fd = "sweep" THEN SweepTicksOf(policy)
    ELSE AnyTicksOf(policy)

MaxTicksOf(fd) ==
    IF fd = "batch" THEN MaxBatchTicks
    ELSE IF fd = "sweep" THEN MaxSweepTicks
    ELSE MaxTicks

\* the files an output directory may hold beside the one the run creates:
\* the age of each (minutes since it was modified), and whether fs::metadata
\* can read it
SiblingFiles == [age : {RetentionMinutes, RetentionMinutes + 1}, metadata : BOOLEAN]

VARIABLES
    bar_type,       \* "time" or "dollar": the bar_type argument of main
    opts,           \* BarOptions of the run, and the interval of time_bars
    feed,           \* which inputs the tick files are drawn from: "any" for
                    \* a run on its own, "batch" for the runs of a batch,
                    \* "sweep" for a run beside older output files
    pc,             \* where the current run of time_bars / dollar_bars stands
    res,            \* what the current run returned, once pc = "done"
    bs,             \* the locals of time_bars / dollar_bars (the BarState)
    file_idx,       \* tick files opened so far in the current run
    n_read,         \* ticks read so far in the current run
    ticks_seen,     \* history: the ticks the current run has ingested
    emits,          \* history: for every bar row written by the current run,
                    \* what wrote it and which tick (its place in ticks_seen,
                    \* 0 for the end of input) triggered it
    bars_dir,       \* per instrument, the output file the run created
    siblings,       \* per instrument, the other files of its output
                    \* directory (a set of SiblingFiles)
    swept,          \* history: the files the current run has removed
    n_symbols,      \* instruments of the invocation (1 without a symbol list)
    sym,            \* the instrument being processed, 1..n_symbols
    batch,          \* TRUE when main was given a symbol list (*.txt)
    main_pc,        \* "running" or "exit"
    results,        \* history: what each instrument's run returned, in order
    errs,           \* the errs collected by the batch branch of main
    err,            \* the Result main matches on at exit
    vol_pc,         \* where daily_vol stands
    dv,             \* the locals of daily_vol
    bar_time,       \* the date_time of the last bar daily_vol read
    vol_out,        \* what daily_vol printed: how many rows, and the last one
    n_summed,       \* history: how many returns were added to sma_sum
    disk,           \* ticks/<symbol>: meta.toml and the tick file of each run
    tk,             \* the locals of the current run of iqfeed_ticks, and its
                    \* history
    health          \* check_iqfeed_health: its two threads, the channel and
                    \* what it returned

vars == <<bar_type, opts, feed, pc, res, bs, file_idx, n_read,
          ticks_seen,
          emits, bars_dir, siblings, swept, n_symbols, sym, batch, main_pc,
          results, errs, err,
          vol_pc, dv, bar_time, vol_out, n_summed, disk, tk, health>>

run_vars == <<pc, res, bs, file_idx, n_read, ticks_seen, emits, bars_dir,
              siblings, swept>>
main_vars == <<n_symbols, sym, batch, main_pc, results, errs, err>>
input_vars == <<bar_type, opts, feed>>
vol_vars == <<vol_pc, dv, bar_time, vol_out, n_summed>>
ticks_vars == <<disk, tk>>
health_vars == <<health>>

(***************************************************************************)
(* Result<T, E>.                                                           *)
(***************************************************************************)
Ok(v) == [tag |-> "Ok", val |-> v]
Err(e) == [tag |-> "Err", val |-> e]
is_err(r) == r.tag = "Err"

\* <Result<T, E> as IntoIterator>: the Ok value if there is one, else nothing
ResultIntoIter(r) == IF r.tag = "Ok" THEN <<r.val>> ELSE <<>>

NoResult == [tag |-> "None", val |-> "none"]

(***************************************************************************)
(* The output file of a run.                                               *)
(***************************************************************************)
NoFile == [exists |-> FALSE, header |-> FALSE, rows |-> <<>>]
NewFile == [exists |-> TRUE, header |-> FALSE, rows |-> <<>>]

Row(dt, o, h, l, c, v, d) ==
    [date_time |-> dt, open |-> o, high |-> h, low |-> l, close |-> c,
     volume |-> v, cum_dollars |-> d]

\* writeln!(out_file, ...)
WriteRowUnlessEmpty(f, row) ==
    IF row.volume = 0 THEN f ELSE [f EXCEPT !.rows = Append(@, row)]
WriteRow(f, row) == [f EXCEPT !.rows = Append(@, row)]

(***************************************************************************)
(* The BarState: the locals of time_bars (bars.rs:69-76) and of            *)
(* dollar_bars (bars.rs:146-149, 176).                                     *)
(***************************************************************************)
TimeLocals ==
    [open |-> 0, high |-> 0, low |-> 0, close |-> 0,
     cumulative_dollar |-> 0, cumulative_volume |-> 0,
     bar_open_time |-> MinDateTime, prev_tick_timestamp |-> EmptyToken,
     new_bar |-> FALSE, last_printed_minute |-> 0]

DollarLocals ==
    [open |-> 0, high |-> 0, low |-> 0, close |-> 0,
     cumulative_dollar |-> 0, cumulative_volume |-> 0,
     bar_open_time |-> EmptyToken, prev_tick_timestamp |-> EmptyToken,
     new_bar |-> FALSE, last_printed_minute |-> 0]

Locals(policy) == IF policy = "dollar" THEN DollarLocals ELSE TimeLocals

\* what the ? of a field that does not parse returns: str::parse::<f64> fails
\* with a ParseFloatError, iqfeed_date_time::parse with a ParseIntError
ParseError(field) ==
    IF field = "date_time" THEN "ParseIntError" ELSE "ParseFloatError"

\* if last < low { low = last; }
UpdLowNever(low, last) == low
UpdLow(low, last) == IF last < low THEN last ELSE low

\* if last > high { high = last; }
UpdHigh(high, last) == IF last > high THEN last ELSE high

\* DateTime::minute of a parsed timestamp
MinuteOf(ts) == ts % 60

\* DurationRound::duration_round(Duration::minutes(15)): to the nearest
\* quarter of an hour (a token is a whole number of minutes: no tie)
RoundTo15(ts) ==
    LET r == ts % 15
    IN  IF 2 * r < 15 THEN ts - r ELSE ts + (15 - r)

(***************************************************************************)
(* dollar_bars, one iteration of the loop over the rows of a file.         *)
(***************************************************************************)
\* if new_bar { ... }
DollarSeed(s, t) ==
    IF s.new_bar
    THEN [s EXCEPT !.bar_open_time = t.date_time, !.open = t.last,
                   !.high = t.last, !.low = t.last,
                   !.cumulative_dollar = 0, !.cumulative_volume = 0,
                   !.new_bar = FALSE]
    ELSE s

DollarAbsorb(s, t, o) ==
    [s EXCEPT !.cumulative_volume = @ + t.last_size,
              !.cumulative_dollar = @ + t.last * t.last_size * o.multiply,
              !.low = UpdLow(@, t.last),
              !.high = UpdHigh(@, t.last),
              !.close = t.last]

\* cumulative_dollar >= opts.dollar_threshold
\*     && prev_tick_timestamp != tick[opts.timestamp_index]
DollarEmitsAnyNotional(cum, threshold, prev, ts) == prev # ts
DollarEmitsUnguarded(cum, threshold, prev, ts) == cum >= threshold
DollarEmits(cum, threshold, prev, ts) == cum >= threshold /\ prev # ts

\* the row both writeln! of dollar_bars format
DollarRow(s) ==
    Row(s.bar_open_time, s.open, s.high, s.low, s.close,
        s.cumulative_volume, s.cumulative_dollar)

(***************************************************************************)
(* time_bars, one iteration of the loop over the rows of a file.           *)
(***************************************************************************)
\* if open == 0.0 { ... }
TimeSeed(s, t) ==
    IF s.open = 0
    THEN [s EXCEPT !.open = t.last, !.high = t.last, !.low = t.last,
                   !.bar_open_time = t.date_time]
    ELSE s

TimeAbsorb(s, t) ==
    [s EXCEPT !.cumulative_volume = @ + t.last_size,
              !.cumulative_dollar = @ + t.last * t.last_size,
              !.low = UpdLow(@, t.last),
              !.high = UpdHigh(@, t.last)]

\* minute % parsed_interval == 0 && minute != last_printed_minute
TimeEmitsEveryTick(minute, interval, last_printed) == minute % interval = 0
TimeEmits(minute, interval, last_printed) ==
    minute % interval = 0 /\ minute # last_printed

\* the row the writeln! of time_bars formats; close is the tick's price
TimeRow(s, t) ==
    Row(RoundTo15(s.bar_open_time), s.open, s.high, s.low, t.last,
        s.cumulative_volume, s.cumulative_dollar)

\* the assignments after the writeln!
TimeReset(s, minute) ==
    [s EXCEPT !.open = 0, !.high = 0, !.low = 0,
              !.cumulative_dollar = 0, !.cumulative_volume = 0,
              !.last_printed_minute = minute]


(***************************************************************************)
(* One run of time_bars / dollar_bars for the instrument sym.              *)
(***************************************************************************)
\* the ? operator: the run returns the error, its locals are dropped
FailAndGoOn(cause) ==
    /\ pc' = pc
    /\ res' = Err(cause)
Fail(cause) ==
    /\ pc' = "done"
    /\ res' = Err(cause)

\* bars.rs:81-91 and bars.rs:159-164: create the directory and the output
\* file, write the header (a write to the open file is taken to succeed)
CreateOutput ==
    /\ pc = "init"
    /\ \E io \in {"ok", "create_dir_all", "File::create"} :
        \/ /\ io = "ok"
           /\ bars_dir' = [bars_dir EXCEPT ![sym] = [NewFile EXCEPT !.header = TRUE]]
           /\ pc' = "list"
           /\ res' = res
        \/ /\ io \in {"create_dir_all", "File::create"}
           /\ bars_dir' = bars_dir
           /\ Fail(io)
    /\ UNCHANGED <<bs, file_idx, n_read, ticks_seen, emits, siblings, swept>>
    /\ UNCHANGED <<input_vars, main_vars, vol_vars, ticks_vars, health_vars>>

\* bars.rs:92 and bars.rs:169: list_tick_files(in_dir_path)?
ListTickFiles ==
    /\ pc = "list"
    /\ \E ok \in BOOLEAN :
        \/ /\ ok
           /\ pc' = "files"
           /\ res' = res
        \/ /\ ~ok
           /\ Fail("read_dir")
    /\ UNCHANGED <<bs, file_idx, n_read, ticks_seen, emits, bars_dir, siblings,
                   swept>>
    /\ UNCHANGED <<input_vars, main_vars, vol_vars, ticks_vars, health_vars>>

\* bars.rs:93-96 and bars.rs:170-176: the next tick file is opened;
\* dollar_bars declares new_bar = true for it
OpenFile ==
    /\ pc = "files"
    /\ file_idx < MaxFiles
    /\ \E ok \in BOOLEAN :
        \/ /\ ok
           /\ pc' = "in_file"
           /\ res' = res
           /\ file_idx' = file_idx + 1
           /\ bs' = IF bar_type = "dollar" THEN [bs EXCEPT !.new_bar = TRUE] ELSE bs
        \/ /\ ~ok
           /\ Fail("File::open")
           /\ UNCHANGED <<file_idx, bs>>
    /\ UNCHANGED <<n_read, ticks_seen, emits, bars_dir, siblings, swept>>
    /\ UNCHANGED <<input_vars, main_vars, vol_vars, ticks_vars, health_vars>>

\* bars.rs:178-214: one row of a tick file through dollar_bars
DollarTick(t) ==
    IF t.bad # "none"
    THEN /\ Fail(ParseError(t.bad))
         /\ UNCHANGED <<bs, ticks_seen, emits, bars_dir>>
    ELSE LET s == DollarAbsorb(DollarSeed(bs, t), t, opts)
             emit == DollarEmits(s.cumulative_dollar, opts.dollar_threshold,
                                 s.prev_tick_timestamp, t.date_time)
         IN  /\ bars_dir' = IF emit
                            THEN [bars_dir EXCEPT ![sym] = WriteRow(@, DollarRow(s))]
                            ELSE bars_dir
             /\ emits' = IF emit
                         THEN Append(emits, [kind |-> "threshold", at |-> Len(ticks_seen) + 1])
                         ELSE emits
             /\ bs' = [s EXCEPT !.new_bar = IF emit THEN TRUE ELSE @,
                                !.prev_tick_timestamp = t.date_time]
             /\ ticks_seen' = Append(ticks_seen, t)
             /\ UNCHANGED <<pc, res>>

\* bars.rs:97-140: one row of a tick file through time_bars
TimeTick(t) ==
    IF t.bad # "none"
    THEN /\ Fail(ParseError(t.bad))
         /\ UNCHANGED <<bs, ticks_seen, emits, bars_dir>>
    ELSE LET minute == MinuteOf(t.date_time)
             s == TimeAbsorb(TimeSeed(bs, t), t)
             emit == TimeEmits(minute, opts.interval, s.last_printed_minute)
         IN  /\ bars_dir' = IF emit
                            THEN [bars_dir EXCEPT ![sym] = WriteRow(@, TimeRow(s, t))]
                            ELSE bars_dir
             /\ emits' = IF emit
                         THEN Append(emits, [kind |-> "boundary", at |-> Len(ticks_seen) + 1])
                         ELSE emits
             /\ bs' = IF emit THEN TimeReset(s, minute) ELSE s
             /\ ticks_seen' = Append(ticks_seen, t)
             /\ UNCHANGED <<pc, res>>

\* rdr.read_byte_record(&mut tick)? returned true
ReadTick ==
    /\ pc = "in_file"
    /\ n_read < MaxTicksOf(feed)
    /\ \E t \in TicksOf(feed, bar_type) :
        IF bar_type = "dollar" THEN DollarTick(t) ELSE TimeTick(t)
    /\ n_read' = n_read + 1
    /\ UNCHANGED <<file_idx, siblings, swept>>
    /\ UNCHANGED <<input_vars, main_vars, vol_vars, ticks_vars, health_vars>>

\* rdr.read_byte_record(&mut tick)? returned false
EndOfFile ==
    /\ pc = "in_file"
    /\ pc' = "files"
    /\ UNCHANGED <<res, bs, file_idx, n_read, ticks_seen, emits, bars_dir,
                   siblings, swept>>
    /\ UNCHANGED <<input_vars, main_vars, vol_vars, ticks_vars, health_vars>>

\* bars.rs:142: time_bars returns once the files are read
TimeEnd ==
    /\ pc = "files"
    /\ bar_type = "time"
    /\ pc' = "done"
    /\ res' = Ok("unit")
    /\ UNCHANGED <<bs, file_idx, n_read, ticks_seen, emits, bars_dir, siblings,
                   swept>>
    /\ UNCHANGED <<input_vars, main_vars, vol_vars, ticks_vars, health_vars>>

\* if let Ok(metadata) = fs::metadata(d.path()) and then
\* if d.path() != out_path && timedelta > Duration::minutes(5): the files a
\* sweep removes; the file just written is not among the siblings
StaleFromRetention(files) ==
    {f \in files : f.metadata /\ f.age >= RetentionMinutes}
Stale(files) == {f \in files : f.metadata /\ f.age > RetentionMinutes}

\* bars.rs:217-236: dollar_bars writes what the locals hold, sweeps the
\* output directory and returns; a file whose metadata cannot be read is
\* skipped, a remove_file that fails ends the sweep and the run with the
\* files before it in the listing removed
DollarEnd ==
    /\ pc = "files"
    /\ bar_type = "dollar"
    /\ bars_dir' = [bars_dir EXCEPT ![sym] = WriteRow(@, DollarRow(bs))]
    /\ emits' = Append(emits, [kind |-> "flush", at |-> 0])
    /\ pc' = "done"
    /\ LET stale == Stale(siblings[sym])
       IN  \E failing \in SUBSET stale, removed \in SUBSET stale :
               /\ Cardinality(failing) <= 1
               /\ IF failing = {}
                  THEN removed = stale
                  ELSE removed \cap failing = {}
               /\ siblings' = [siblings EXCEPT ![sym] = @ \ removed]
               /\ swept' = swept \cup removed
               /\ res' = IF failing = {} THEN Ok("unit") ELSE Err("remove_file")
    /\ UNCHANGED <<bs, file_idx, n_read, ticks_seen>>
    /\ UNCHANGED <<input_vars, main_vars, vol_vars, ticks_vars, health_vars>>

Run ==
    \/ CreateOutput
    \/ ListTickFiles
    \/ OpenFile
    \/ ReadTick
    \/ EndOfFile
    \/ TimeEnd
    \/ DollarEnd

(***************************************************************************)
(* Exact fractions <<numerator, denominator>>, the denominator positive,   *)
(* in lowest terms: the f64 values of daily_vol.                           *)
(***************************************************************************)
Abs(x) == IF x < 0 THEN -x ELSE x

RECURSIVE Gcd(_, _)
Gcd(a, b) == IF b = 0 THEN a ELSE Gcd(b, a % b)

Frac(n, d) ==
    LET g == Gcd(Abs(n), Abs(d))
        sg == IF d < 0 THEN -1 ELSE 1
    IN  <<(sg * n) \div g, (sg * d) \div g>>

FAdd(x, y) == Frac(x[1] * y[2] + y[1] * x[2], x[2] * y[2])
FSub(x, y) == Frac(x[1] * y[2] - y[1] * x[2], x[2] * y[2])
FMul(x, y) == Frac(x[1] * y[1], x[2] * y[2])
FDiv(x, y) == Frac(x[1] * y[2], x[2] * y[1])
FInt(n) == <<n, 1>>

\* Option<f64>
None == <<>>
Some(x) == <<x>>
unwrap(o) == o[1]

(***************************************************************************)
(* daily_vol (main.rs:52-96).                                              *)
(***************************************************************************)
\* let lookback = 20;
lookback == 20
\* let smoothing = 2.;
smoothing == 2
\* Duration::days(1), in hours
OneDay == 24

\* the closes of the bars of the input, and the hours between one bar and
\* the next: a day, or a day and a half
VolCloses == {1, 2}
VolGaps == {24, 36}

\* fn nan_or_val
nan_or_val(x) == IF x = None THEN "NaN" ELSE unwrap(x)

\* let ret = (bar.close / price_cur) - 1.;
Ret(close, price_cur) == FSub(FDiv(FInt(close), FInt(price_cur)), FInt(1))

\* smoothing / (1. + lookback_f64)
Alpha == FDiv(FInt(smoothing), FAdd(FInt(1), FInt(lookback)))

\* ewma = Some(sma_sum / n_days as f64);
Bootstrap(sma_sum, n_days) == FDiv(sma_sum, FInt(n_days))

\* (ret * alpha) + (ewma.unwrap() * (1. - alpha))
Smooth(ret, ewma) ==
    FAdd(FMul(ret, Alpha), FMul(unwrap(ewma), FSub(FInt(1), Alpha)))

\* bar.date_time.signed_duration_since(day_cur) > Duration::days(1)
RolloverFromOneDay(date_time, day_cur) == date_time - day_cur >= OneDay
Rollover(date_time, day_cur) == date_time - day_cur > OneDay

\* main.rs:71-88: the locals after the rollover at a bar with this close
VolStep(d, close) ==
    LET n == d.n_days + 1
        ret == Ret(close, d.price_cur)
    IN  IF n > lookback
        THEN LET seeded == IF n = lookback + 1
                           THEN Some(Bootstrap(d.sma_sum, n))
                           ELSE d.ewma
             IN  [d EXCEPT !.n_days = n, !.ewma = Some(Smooth(ret, seeded))]
        ELSE [d EXCEPT !.n_days = n, !.sma_sum = FAdd(@, ret)]

NoRow == [start_date_time |-> 0, end_date_time |-> 0, return |-> FInt(0),
          ewma |-> "none"]

VolIdle ==
    /\ vol_pc = "idle"
    /\ dv = [n_days |-> 0, ewma |-> None, day_cur |-> 0, price_cur |-> 0,
             sma_sum |-> FInt(0)]
    /\ bar_time = 0
    /\ vol_out = [n_rows |-> 0, last |-> NoRow]
    /\ n_summed = 0

\* main.rs:68-93: the next bar of the file
VolBar ==
    /\ vol_pc = "bars"
    /\ dv.n_days < MaxDays
    /\ \E close \in VolCloses, gap \in VolGaps :
        LET date_time == bar_time + gap
        IN  /\ bar_time' = date_time
            /\ IF Rollover(date_time, dv.day_cur)
               THEN LET d == VolStep(dv, close)
                    IN  /\ dv' = [d EXCEPT !.day_cur = date_time,
                                           !.price_cur = close]
                        /\ vol_out' =
                              [n_rows |-> vol_out.n_rows + 1,
                               last |-> [start_date_time |-> dv.day_cur,
                                         end_date_time |-> date_time,
                                         return |-> Ret(close, dv.price_cur),
                                         ewma |-> nan_or_val(d.ewma)]]
                        /\ n_summed' = IF d.n_days > lookback
                                       THEN n_summed ELSE n_summed + 1
               ELSE UNCHANGED <<dv, vol_out, n_summed>>
    /\ UNCHANGED vol_pc
    /\ UNCHANGED <<input_vars, run_vars, main_vars, ticks_vars, health_vars>>

\* main.rs:69: a row of the file that is not a Bar
VolBadBar ==
    /\ vol_pc = "bars"
    /\ vol_pc' = "err"
    /\ UNCHANGED <<dv, bar_time, vol_out, n_summed>>
    /\ UNCHANGED <<input_vars, run_vars, main_vars, ticks_vars, health_vars>>

\* main.rs:95: the file is read
VolEnd ==
    /\ vol_pc = "bars"
    /\ vol_pc' = "ok"
    /\ UNCHANGED <<dv, bar_time, vol_out, n_summed>>
    /\ UNCHANGED <<input_vars, run_vars, main_vars, ticks_vars, health_vars>>

(***************************************************************************)
(* iqfeed_ticks (ticks.rs:40-150).                                         *)
(*                                                                         *)
(* A timestamp is a whole number of half milliseconds: the vendor's lines  *)
(* and the clock are finer than the millisecond that                       *)
(* iqfeed_date_time::parse keeps.                                          *)
(***************************************************************************)
\* the timestamps of the vendor's tick lines, as sent
RawStamps == 3..6
\* Utc::now() at the start of a run for a new symbol
NowStamps == {3}

\* iqfeed_date_time::parse: year to second, and s[20..23], the milliseconds;
\* what follows them in the string is not read
parse(s) == s - (s % 2)

\* iqfeed_date_time::serialize: "%Y-%m-%d %H:%M:%S.%f", every digit
serialize(date) == date

\* struct IQFeedTickMetaData
IQFeedTickMetaData(min, max) == [min_date_time |-> min, max_date_time |-> max]

\* the lines the vendor may send after the protocol line: a tick, a tick
\* whose timestamp does not parse, an error line (v[1] == "E"), the end of
\* the message, and a read that fails
VendorLines ==
    [kind : {"tick"}, date_time : RawStamps]
        \cup [kind : {"bad_tick", "E", "!ENDMSG!", "io_error"}, date_time : {0}]

\* a tick file: File::create makes it empty
NoTickFile == [exists |-> FALSE, header |-> FALSE, ticks |-> <<>>]
EmptyTickFile == [exists |-> TRUE, header |-> FALSE, ticks |-> <<>>]

\* BufWriter::flush, and the drop of the BufWriter: what the buffer holds
\* goes to the file
FlushBuf(file, buf) ==
    IF ~file.exists THEN file
    ELSE [file EXCEPT !.header = @ \/ buf.header, !.ticks = @ \o buf.ticks]

\* a BufWriter that holds nothing: the header line and the tick lines it
\* holds are kept apart
EmptyBuf == [header |-> FALSE, ticks |-> <<>>]

\* tick_date_time > meta_cfg.max_date_time
IsNewTickOrSame(tick_date_time, max_date_time) == tick_date_time >= max_date_time
IsNewTick(tick_date_time, max_date_time) == tick_date_time > max_date_time

TicksLocals(run) ==
    [pc |-> "create", run |-> run, res |-> NoResult,
     meta_cfg |-> IQFeedTickMetaData(0, 0), n_ticks |-> 0, n_lines |-> 0,
     out_file_buf |-> EmptyBuf,
     \* history: meta_cfg when the loop over the lines starts, and the ticks
     \* received, each with whether it was written
     start |-> IQFeedTickMetaData(0, 0), received |-> <<>>]

TicksIdle ==
    /\ disk = [meta |-> None, files |-> <<>>]
    /\ tk = [TicksLocals(0) EXCEPT !.pc = "idle"]

\* a return of the function: the locals are dropped, the BufWriter among
\* them, which writes out what it holds
TicksReturn(result) ==
    /\ tk' = [tk EXCEPT !.pc = "done", !.res = result, !.out_file_buf = EmptyBuf]
    /\ disk' = [disk EXCEPT !.files[tk.run] = FlushBuf(@, tk.out_file_buf)]

\* ticks.rs:41-46: the directory and the tick file of the run
TicksCreate ==
    /\ tk.pc = "create"
    /\ \E io \in {"ok", "create_dir_all", "File::create"} :
        IF io = "ok"
        THEN /\ disk' = [disk EXCEPT !.files[tk.run] = EmptyTickFile]
             /\ tk' = [tk EXCEPT !.pc = "meta"]
        ELSE TicksReturn(Err(io))
    /\ UNCHANGED <<input_vars, run_vars, main_vars, vol_vars, health_vars>>

\* ticks.rs:47-80: meta.toml is read; without one the symbol is new, and is
\* refused during market hours unless no_mkt_hours is set
TicksMeta ==
    /\ tk.pc = "meta"
    /\ IF disk.meta # None
       THEN \E ok \in BOOLEAN :
                IF ok
                THEN /\ tk' = [tk EXCEPT
                            !.pc = "connect",
                            !.meta_cfg = IQFeedTickMetaData(
                                parse(unwrap(disk.meta).min_date_time),
                                parse(unwrap(disk.meta).max_date_time))]
                     /\ disk' = disk
                ELSE TicksReturn(Err("toml::from_str"))
       ELSE \E refused \in BOOLEAN, now_dt \in NowStamps :
                IF refused
                THEN TicksReturn(Err("market hours"))
                ELSE /\ tk' = [tk EXCEPT
                            !.pc = "connect",
                            !.meta_cfg = IQFeedTickMetaData(now_dt, now_dt)]
                     /\ disk' = disk
    /\ UNCHANGED <<input_vars, run_vars, main_vars, vol_vars, health_vars>>

\* ticks.rs:90-101: the connection and the two requests
TicksConnect ==
    /\ tk.pc = "connect"
    /\ \E io \in {"ok", "TcpStream::connect", "write_all"} :
        IF io = "ok"
        THEN /\ tk' = [tk EXCEPT !.pc = "header"]
             /\ disk' = disk
        ELSE TicksReturn(Err(io))
    /\ UNCHANGED <<input_vars, run_vars, main_vars, vol_vars, health_vars>>

\* ticks.rs:102-110: the protocol line is discarded, the header is written
\* to the BufWriter
TicksHeader ==
    /\ tk.pc = "header"
    /\ tk' = [tk EXCEPT !.pc = "lines",
                        !.out_file_buf = [@ EXCEPT !.header = TRUE],
                        !.start = tk.meta_cfg]
    /\ disk' = disk
    /\ UNCHANGED <<input_vars, run_vars, main_vars, vol_vars, health_vars>>

\* ticks.rs:126-135: a line that is a tick; when the BufWriter is full it
\* writes out what it holds before it takes the line
TicksTick(line) ==
    LET tick_date_time == parse(line.date_time)
        new == IsNewTick(tick_date_time, tk.meta_cfg.max_date_time)
        max == IF new THEN tick_date_time ELSE tk.meta_cfg.max_date_time
        min == IF tick_date_time < tk.meta_cfg.min_date_time
               THEN tick_date_time ELSE tk.meta_cfg.min_date_time
    IN  \E full \in BOOLEAN :
            /\ full => new /\ tk.out_file_buf # EmptyBuf
            /\ tk' = [tk EXCEPT
                    !.meta_cfg = IQFeedTickMetaData(min, max),
                    !.n_ticks = IF new THEN @ + 1 ELSE @,
                    !.n_lines = @ + 1,
                    !.out_file_buf =
                        IF ~new THEN @
                        ELSE IF full
                        THEN [EmptyBuf EXCEPT !.ticks = <<line.date_time>>]
                        ELSE [@ EXCEPT !.ticks = Append(@, line.date_time)],
                    !.received = Append(@, [date_time |-> tick_date_time,
                                            stored |-> new])]
            /\ disk' = IF full
                       THEN [disk EXCEPT
                                !.files[tk.run] = FlushBuf(@, tk.out_file_buf)]
                       ELSE disk

\* ticks.rs:115-122: the vendor's error line
TicksErrorLine ==
    \E removed \in BOOLEAN :
        /\ tk' = [tk EXCEPT !.pc = "done", !.out_file_buf = EmptyBuf,
                            !.n_lines = @ + 1,
                            !.res = IF tk.n_ticks = 0 /\ ~removed
                                    THEN Err("remove_file")
                                    ELSE Err("IQFeedNoDataError")]
        /\ disk' = [disk EXCEPT
                        !.files[tk.run] =
                            IF tk.n_ticks = 0 /\ removed
                            THEN NoTickFile
                            ELSE FlushBuf(@, tk.out_file_buf)]

\* ticks.rs:112-136: the next line of the vendor
TicksLine ==
    /\ tk.pc = "lines"
    /\ tk.n_lines < MaxLines
    /\ \E line \in VendorLines :
        CASE line.kind = "io_error" -> TicksReturn(Err("io::Error"))
          [] line.kind = "E" -> TicksErrorLine
          [] line.kind = "!ENDMSG!" ->
                /\ tk' = [tk EXCEPT !.pc = "finish", !.n_lines = @ + 1]
                /\ disk' = disk
          [] line.kind = "bad_tick" -> TicksReturn(Err("ParseIntError"))
          [] line.kind = "tick" -> TicksTick(line)
    /\ UNCHANGED <<input_vars, run_vars, main_vars, vol_vars, health_vars>>

\* ticks.rs:112: the vendor closes the connection, the lines end
TicksEndOfStream ==
    /\ tk.pc = "lines"
    /\ tk' = [tk EXCEPT !.pc = "finish"]
    /\ disk' = disk
    /\ UNCHANGED <<input_vars, run_vars, main_vars, vol_vars, health_vars>>

\* ticks.rs:138-149: the buffer is written out, meta.toml is written, a tick
\* file without a tick is removed
TicksFinish ==
    /\ tk.pc = "finish"
    /\ \E io \in {"ok", "flush", "fs::write", "remove_file"} :
        LET flushed == [disk EXCEPT
                            !.files[tk.run] = FlushBuf(@, tk.out_file_buf)]
            written == [flushed EXCEPT
                            !.meta = Some(IQFeedTickMetaData(
                                        serialize(tk.meta_cfg.min_date_time),
                                        serialize(tk.meta_cfg.max_date_time)))]
        IN  /\ io = "remove_file" => tk.n_ticks = 0
            /\ disk' = CASE io = "flush" -> disk
                          [] io = "fs::write" -> flushed
                          [] io = "remove_file" -> written
                          [] io = "ok" ->
                                IF tk.n_ticks = 0
                                THEN [written EXCEPT !.files[tk.run] = NoTickFile]
                                ELSE written
            /\ tk' = [tk EXCEPT !.pc = "done", !.out_file_buf = EmptyBuf,
                                !.res = IF io = "ok" THEN Ok("unit") ELSE Err(io)]
    /\ UNCHANGED <<input_vars, run_vars, main_vars, vol_vars, health_vars>>

\* the ticks subcommand is invoked again for the instrument
TicksNextRun ==
    /\ tk.pc = "done"
    /\ tk.run < MaxRuns
    /\ tk' = TicksLocals(tk.run + 1)
    /\ disk' = disk
    /\ UNCHANGED <<input_vars, run_vars, main_vars, vol_vars, health_vars>>

(***************************************************************************)
(* check_iqfeed_health (main.rs:133-197), not called.                      *)
(***************************************************************************)
HealthIdle == health = [pc |-> "idle"]

\* ---- check_iqfeed_health (src/src/main.rs) ----
\* Two threads share the sending side of one channel: the probe thread
\* connects, writes the request and reads one line; the timeout thread sleeps
\* and then sends a TimedOut error. The caller returns on the first message.

TimeoutMillis == 5000
ClockStep == 1000
ExpectedLine == "S,CURRENT PROTOCOL,5.1"

\* What lines.next() can give the probe: a line, a read error, or nothing
\* because the connection was closed.
ProbeReads ==
    {[kind |-> "line", text |-> l] :
        l \in {ExpectedLine, "S,CURRENT PROTOCOL,6.2", "E,!NO_DATA!,,"}}
    \cup {[kind |-> "io_error", text |-> ""], [kind |-> "closed", text |-> ""]}

HealthLocals ==
    [pc |-> "running", probe |-> "connect", timeout |-> "sleeping",
     elapsed |-> 0, read |-> None, chan |-> <<>>, msg |-> None,
     ret |-> None]

\* sender.send(m): queued while the receiver is alive, an error once the
\* caller has returned and dropped it.
Send(h, m) == IF h.ret = None THEN Append(h.chan, m) ELSE h.chan

HealthConnect ==
    /\ health.pc = "running"
    /\ health.probe = "connect"
    /\ \E ok \in BOOLEAN :
        health' = IF ok
                  THEN [health EXCEPT !.probe = "write"]
                  ELSE [health EXCEPT
                            !.probe = "returned",
                            !.chan = Send(health, Err("ConnectionRefused"))]
    /\ UNCHANGED <<input_vars, run_vars, main_vars, vol_vars, ticks_vars>>

HealthWrite ==
    /\ health.pc = "running"
    /\ health.probe = "write"
    /\ \E ok \in BOOLEAN :
        health' = IF ok
                  THEN [health EXCEPT !.probe = "read"]
                  ELSE [health EXCEPT
                            !.probe = "returned",
                            !.chan = Send(health, Err("BrokenPipe"))]
    /\ UNCHANGED <<input_vars, run_vars, main_vars, vol_vars, ticks_vars>>

\* The message the probe sends after lines.next(): the if-let is skipped
\* when there is no line, and the thread goes on to send Ok(()).
ProbeMessage(r) ==
    CASE r.kind = "line" /\ r.text # ExpectedLine -> Err("InvalidData")
      [] r.kind = "io_error" -> Err("ReadError")
      [] OTHER -> Ok("unit")

HealthRead ==
    /\ health.pc = "running"
    /\ health.probe = "read"
    /\ \E r \in ProbeReads :
        health' = [health EXCEPT
                      !.probe = "returned",
                      !.read = Some(r),
                      !.chan = Send(health, ProbeMessage(r))]
    /\ UNCHANGED <<input_vars, run_vars, main_vars, vol_vars, ticks_vars>>

HealthSleep ==
    /\ health.pc = "running"
    /\ health.timeout = "sleeping"
    /\ health.elapsed < TimeoutMillis
    /\ health' = [health EXCEPT !.elapsed = @ + ClockStep]
    /\ UNCHANGED <<input_vars, run_vars, main_vars, vol_vars, ticks_vars>>

HealthTimeout ==
    /\ health.pc = "running"
    /\ health.timeout = "sleeping"
    /\ health.elapsed >= TimeoutMillis
    /\ health' = [health EXCEPT
                      !.timeout = "returned",
                      !.chan = Send(health, Err("TimedOut"))]
    /\ UNCHANGED <<input_vars, run_vars, main_vars, vol_vars, ticks_vars>>

\* receiver.recv(): blocks until a message is queued, or fails once both
\* senders are gone with nothing queued.
HealthRecv ==
    /\ health.pc = "running"
    /\ health.ret = None
    /\ \/ health.chan # <<>>
       \/ health.probe = "returned" /\ health.timeout = "returned"
    /\ health' = IF health.chan # <<>>
                  THEN [health EXCEPT
                            !.chan = Tail(@),
                            !.msg = Some(Head(health.chan)),
                            !.ret = IF Head(health.chan).tag = "Ok"
                                    THEN Some(0) ELSE Some(2)]
                  ELSE [health EXCEPT !.ret = Some(2)]
    /\ UNCHANGED <<input_vars, run_vars, main_vars, vol_vars, ticks_vars>>

(***************************************************************************)
(* A run of time_bars / dollar_bars on its own: any options, any input,    *)
(* an output directory that holds no other file.                           *)
(***************************************************************************)
RunInit ==
    /\ pc = "init"
    /\ res = NoResult
    /\ bs = Locals(bar_type)
    /\ file_idx = 0
    /\ n_read = 0
    /\ ticks_seen = <<>>
    /\ emits = <<>>
    /\ swept = {}

Init ==
    /\ bar_type \in {"time", "dollar"}
    /\ opts \in [dollar_threshold : Thresholds, multiply : Multiplies,
                 interval : Intervals]
    /\ feed = "any"
    /\ RunInit
    /\ batch = FALSE
    /\ n_symbols = 1
    /\ sym = 1
    /\ bars_dir = [i \in 1..1 |-> NoFile]
    /\ siblings = [i \in 1..1 |-> {}]
    /\ main_pc = "running"
    /\ results = <<>>
    /\ errs = <<>>
    /\ err = NoResult
    /\ VolIdle
    /\ TicksIdle
    /\ HealthIdle

Next == Run

Spec == Init /\ [][Next]_vars

(***************************************************************************)
(* A run of time_bars / dollar_bars whose output directory holds files of  *)
(* earlier runs.                                                           *)
(***************************************************************************)
InitSweep ==
    /\ bar_type \in {"time", "dollar"}
    /\ opts \in [dollar_threshold : Thresholds, multiply : Multiplies,
                 interval : Intervals]
    /\ feed = "sweep"
    /\ RunInit
    /\ batch = FALSE
    /\ n_symbols = 1
    /\ sym = 1
    /\ bars_dir = [i \in 1..1 |-> NoFile]
    /\ siblings \in [1..1 -> SUBSET SiblingFiles]
    /\ main_pc = "running"
    /\ results = <<>>
    /\ errs = <<>>
    /\ err = NoResult
    /\ VolIdle
    /\ TicksIdle
    /\ HealthIdle

NextSweep == Run

SpecSweep == InitSweep /\ [][NextSweep]_vars

(***************************************************************************)
(* main, the bars subcommand over a symbol list (main.rs:301-330).         *)
(***************************************************************************)
\* struct ProcessingError { errs }
ProcessingError(es) == [errs |-> es]

\* the output directories hold no other file; the threshold main passes
\* (7000000.0) is far above what the ticks of the model can reach, so the
\* batch draws it, like a run on its own, from Thresholds
InitBatch ==
    /\ bar_type \in {"time", "dollar"}
    /\ opts \in [dollar_threshold : Thresholds, multiply : Multiplies,
                 interval : Intervals]
    /\ feed = "batch"
    /\ batch = TRUE
    /\ n_symbols \in 0..MaxSymbols
    /\ sym = IF n_symbols = 0 THEN 0 ELSE 1
    /\ bars_dir = [i \in 1..n_symbols |-> NoFile]
    /\ siblings = [i \in 1..n_symbols |-> {}]
    /\ IF n_symbols = 0
       THEN /\ pc = "idle"
            /\ res = NoResult
            /\ bs = Locals(bar_type)
            /\ file_idx = 0
            /\ n_read = 0
            /\ ticks_seen = <<>>
            /\ emits = <<>>
            /\ swept = {}
       ELSE RunInit
    /\ main_pc = "running"
    /\ results = <<>>
    /\ errs = <<>>
    /\ err = NoResult
    /\ VolIdle
    /\ TicksIdle
    /\ HealthIdle

\* .filter(|res| res.is_err())
Filter(r) == IF is_err(r) THEN <<r>> ELSE <<>>

\* .flat_map(Err): Err is the constructor of Result, so the closure wraps the
\* item, itself a Result, into the Err of an outer Result; flat_map then
\* iterates that outer Result
FlatMapErr(items) ==
    IF items = <<>> THEN <<>> ELSE ResultIntoIter(Err(items[1]))

\* main.rs:304-325: the iterator chain is lazy, collect pulls one line at a
\* time through map (the run), filter and flat_map; once the run of a line
\* has returned, its item is collected and the next line is read
BatchItemFailFast ==
    /\ batch
    /\ main_pc = "running"
    /\ pc = "done"
    /\ results' = Append(results, res)
    /\ errs' = errs \o FlatMapErr(Filter(res))
    /\ IF sym < n_symbols /\ ~is_err(res)
       THEN /\ sym' = sym + 1
            /\ pc' = "init"
            /\ res' = NoResult
            /\ bs' = Locals(bar_type)
            /\ file_idx' = 0
            /\ n_read' = 0
            /\ ticks_seen' = <<>>
            /\ emits' = <<>>
            /\ swept' = {}
       ELSE /\ sym' = sym
            /\ pc' = "idle"
            /\ UNCHANGED <<res, bs, file_idx, n_read, ticks_seen, emits, swept>>
    /\ UNCHANGED <<bars_dir, siblings, n_symbols, batch, main_pc, err>>
    /\ UNCHANGED <<input_vars, vol_vars, ticks_vars, health_vars>>
BatchItem ==
    /\ batch
    /\ main_pc = "running"
    /\ pc = "done"
    /\ results' = Append(results, res)
    /\ errs' = errs \o FlatMapErr(Filter(res))
    /\ IF sym < n_symbols
       THEN /\ sym' = sym + 1
            /\ pc' = "init"
            /\ res' = NoResult
            /\ bs' = Locals(bar_type)
            /\ file_idx' = 0
            /\ n_read' = 0
            /\ ticks_seen' = <<>>
            /\ emits' = <<>>
            /\ swept' = {}
       ELSE /\ sym' = sym
            /\ pc' = "idle"
            /\ UNCHANGED <<res, bs, file_idx, n_read, ticks_seen, emits, swept>>
    /\ UNCHANGED <<bars_dir, siblings, n_symbols, batch, main_pc, err>>
    /\ UNCHANGED <<input_vars, vol_vars, ticks_vars, health_vars>>

\* main.rs:326-330 and main.rs:412-421
BatchEnd ==
    /\ batch
    /\ main_pc = "running"
    /\ pc = "idle"
    /\ err' = IF errs = <<>> THEN Ok("unit") ELSE Err(ProcessingError(errs))
    /\ main_pc' = "exit"
    /\ UNCHANGED <<n_symbols, sym, batch, results, errs>>
    /\ UNCHANGED <<input_vars, run_vars, vol_vars, ticks_vars, health_vars>>

NextBatch ==
    \/ Run
    \/ BatchItem
    \/ BatchEnd

SpecBatch == InitBatch /\ [][NextBatch]_vars

(***************************************************************************)
(* daily_vol over a file of bars: main.rs:53-66 have read the first bar.   *)
(***************************************************************************)
InitVol ==
    /\ bar_type = "dollar"
    /\ opts = [dollar_threshold |-> 2, multiply |-> 1, interval |-> 15]
    /\ feed = "any"
    /\ pc = "idle"
    /\ res = NoResult
    /\ bs = Locals(bar_type)
    /\ file_idx = 0
    /\ n_read = 0
    /\ ticks_seen = <<>>
    /\ emits = <<>>
    /\ swept = {}
    /\ batch = FALSE
    /\ n_symbols = 0
    /\ sym = 0
    /\ bars_dir = <<>>
    /\ siblings = <<>>
    /\ main_pc = "running"
    /\ results = <<>>
    /\ errs = <<>>
    /\ err = NoResult
    /\ vol_pc = "bars"
    /\ \E close \in VolCloses :
        dv = [n_days |-> 1, ewma |-> None, day_cur |-> 0, price_cur |-> close,
              sma_sum |-> FInt(0)]
    /\ bar_time = 0
    /\ vol_out = [n_rows |-> 0, last |-> NoRow]
    /\ n_summed = 0
    /\ TicksIdle
    /\ HealthIdle

NextVol ==
    \/ VolBar
    \/ VolBadBar
    \/ VolEnd

SpecVol == InitVol /\ [][NextVol]_vars

(***************************************************************************)
(* The ticks subcommand, invoked time and again for one instrument that    *)
(* is new at first (ticks.rs:40-150).                                      *)
(***************************************************************************)
InitTicks ==
    /\ bar_type = "dollar"
    /\ opts = [dollar_threshold |-> 2, multiply |-> 1, interval |-> 15]
    /\ feed = "any"
    /\ pc = "idle"
    /\ res = NoResult
    /\ bs = Locals(bar_type)
    /\ file_idx = 0
    /\ n_read = 0
    /\ ticks_seen = <<>>
    /\ emits = <<>>
    /\ swept = {}
    /\ batch = FALSE
    /\ n_symbols = 0
    /\ sym = 0
    /\ bars_dir = <<>>
    /\ siblings = <<>>
    /\ main_pc = "running"
    /\ results = <<>>
    /\ errs = <<>>
    /\ err = NoResult
    /\ VolIdle
    /\ disk = [meta |-> None, files |-> [r \in 1..MaxRuns |-> NoTickFile]]
    /\ tk = TicksLocals(1)
    /\ HealthIdle

NextTicks ==
    \/ TicksCreate
    \/ TicksMeta
    \/ TicksConnect
    \/ TicksHeader
    \/ TicksLine
    \/ TicksEndOfStream
    \/ TicksFinish
    \/ TicksNextRun

SpecTicks == InitTicks /\ [][NextTicks]_vars

InitHealth ==
    /\ bar_type = "dollar"
    /\ opts = [dollar_threshold |-> 2, multiply |-> 1, interval |-> 15]
    /\ feed = "any"
    /\ pc = "idle"
    /\ res = NoResult
    /\ bs = Locals(bar_type)
    /\ file_idx = 0
    /\ n_read = 0
    /\ ticks_seen = <<>>
    /\ emits = <<>>
    /\ swept = {}
    /\ batch = FALSE
    /\ n_symbols = 0
    /\ sym = 0
    /\ bars_dir = <<>>
    /\ siblings = <<>>
    /\ main_pc = "running"
    /\ results = <<>>
    /\ errs = <<>>
    /\ err = NoResult
    /\ VolIdle
    /\ TicksIdle
    /\ health = HealthLocals

NextHealth ==
    \/ HealthConnect
    \/ HealthWrite
    \/ HealthRead
    \/ HealthSleep
    \/ HealthTimeout
    \/ HealthRecv

SpecHealth == InitHealth /\ [][NextHealth]_vars

(***************************************************************************)
(* What the properties below read.                                         *)
(***************************************************************************)
\* the bar rows of the output file of the current run
Rows == IF sym \in DOMAIN bars_dir THEN bars_dir[sym].rows ELSE <<>>

RECURSIVE SumVolume(_)
SumVolume(rows) ==
    IF rows = <<>> THEN 0 ELSE rows[1].volume + SumVolume(Tail(rows))

RECURSIVE SumLastSize(_)
SumLastSize(ticks) ==
    IF ticks = <<>> THEN 0 ELSE ticks[1].last_size + SumLastSize(Tail(ticks))

Returned(policy) == bar_type = policy /\ pc = "done" /\ res = Ok("unit")

\* the last tick of the input made dollar_bars write a row
LastTickEmitted ==
    /\ ticks_seen # <<>>
    /\ \E i \in DOMAIN emits :
        emits[i].kind = "threshold" /\ emits[i].at = Len(ticks_seen)

NumFailed == Cardinality({i \in DOMAIN results : is_err(results[i])})

\* the rows the threshold triggered, by their place in the output file
ThresholdRows == {i \in DOMAIN emits : emits[i].kind = "threshold"}

\* the first tick of the bar row i is about: the tick after the one that
\* triggered row i - 1, or the first tick of the run
BarStart(i) == IF i = 1 THEN 1 ELSE emits[i - 1].at + 1

\* the last tick of the bar row i is about: the tick that triggered it; for
\* the row written at the end of input, the last tick of the run
BarEnd(i) == IF emits[i].kind = "flush" THEN Len(ticks_seen) ELSE emits[i].at

RECURSIVE SumDollar(_)
SumDollar(ticks) ==
    IF ticks = <<>> THEN 0
    ELSE ticks[1].last * ticks[1].last_size * opts.multiply
            + SumDollar(Tail(ticks))

MaxOf(S) == CHOOSE x \in S : \A y \in S : y <= x
MinOf(S) == CHOOSE x \in S : \A y \in S : x <= y

\* the tick file of the current run of iqfeed_ticks
TickFile == disk.files[tk.run]

\* the timestamps of the ticks the current run has received, and of those
\* among the first k - 1 of them that it wrote
Seen == {tk.received[k].date_time : k \in DOMAIN tk.received}
StoredBefore(k) ==
    {tk.received[j].date_time : j \in {i \in 1..(k - 1) : tk.received[i].stored}}

\* the running max watermark when the k-th tick is received
Watermark(k) == MaxOf({tk.start.max_date_time} \cup StoredBefore(k))

\* the run returned the error of a row that does not parse
ParseFailed == res \in {Err("ParseFloatError"), Err("ParseIntError")}

(***************************************************************************)
(* The properties.                                                         *)
(***************************************************************************)
\* C1: every row dollar_bars writes when the threshold triggers (every row but
\* the one written at the end of input) has cum_dollars >= dollar_threshold.
C1_ThresholdRowsReachThreshold ==
    bar_type = "dollar" =>
        \A i \in DOMAIN emits :
            emits[i].kind = "threshold" =>
                Rows[i].cum_dollars >= opts.dollar_threshold

\* a run has returned that wrote a row at the threshold and, at the end of
\* input, a row below it
C1_Witness ==
    /\ Returned("dollar")
    /\ \E i \in DOMAIN emits : emits[i].kind = "threshold"
    /\ \E i \in DOMAIN emits :
        emits[i].kind = "flush" /\ Rows[i].cum_dollars < opts.dollar_threshold

\* C2: every row either policy writes (the row at the end of input and the
\* rows after a reset included) has low <= open <= high and
\* low <= close <= high.
C2_RowsAreOrdered ==
    \A i \in DOMAIN Rows :
        /\ Rows[i].low <= Rows[i].open /\ Rows[i].open <= Rows[i].high
        /\ Rows[i].low <= Rows[i].close /\ Rows[i].close <= Rows[i].high

\* dollar_bars has returned; the row it wrote at the end of input follows a
\* row written at the threshold and holds later ticks; its low is below its
\* open
C2_Witness ==
    /\ Returned("dollar")
    /\ \E i \in DOMAIN Rows :
        /\ i > 1
        /\ emits[i].kind = "flush"
        /\ emits[i - 1].kind = "threshold"
        /\ ~LastTickEmitted
        /\ Rows[i].low < Rows[i].open
        /\ Rows[i].close < Rows[i].high

\* C3: when dollar_bars has returned from a run over a single input file,
\* the volumes of the rows it wrote add up to the volumes of the ticks.
C3_DollarVolumeConserved ==
    (Returned("dollar") /\ file_idx <= 1) =>
        SumVolume(Rows) = SumLastSize(ticks_seen)

\* C4: when time_bars has returned from a run over a single input file, the
\* volumes of the rows it wrote add up to the volumes of the ticks.
C4_TimeVolumeConserved ==
    (Returned("time") /\ file_idx <= 1) =>
        SumVolume(Rows) = SumLastSize(ticks_seen)

\* C5: when the batch exits and K of its runs returned an error, main's
\* result is Ok for K = 0 and otherwise a ProcessingError with K errs.
C5_BatchReportsEveryFailure ==
    (batch /\ main_pc = "exit") =>
        IF NumFailed = 0
        THEN err = Ok("unit")
        ELSE /\ err.tag = "Err"
             /\ Len(err.val.errs) = NumFailed

\* C6: when the batch exits, the instruments with an output file are those
\* whose run succeeded: N - K files, none for a run that failed.
C6_FailedRunsLeaveNoFile ==
    (batch /\ main_pc = "exit") =>
        /\ Cardinality({i \in DOMAIN bars_dir : bars_dir[i].exists})
              = n_symbols - NumFailed
        /\ \A i \in DOMAIN results : is_err(results[i]) => ~bars_dir[i].exists

\* C7: when two consecutive ticks carry the same raw timestamp token T,
\* dollar_bars writes no two rows with date_time T (stated of the rows the
\* threshold triggers alone: the row written at the end of input is left out).
C7_NoTwoRowsKeyedToSharedToken ==
    bar_type = "dollar" =>
        \A j \in 1..(Len(ticks_seen) - 1) :
            ticks_seen[j].date_time = ticks_seen[j + 1].date_time =>
                \A a, b \in DOMAIN emits :
                    (/\ a # b
                     /\ emits[a].kind = "threshold"
                     /\ emits[b].kind = "threshold"
                     /\ Rows[a].date_time = ticks_seen[j].date_time)
                        => Rows[b].date_time # ticks_seen[j].date_time

\* C8: two consecutive rows of time_bars are never triggered by ticks of the
\* same minute of the hour.
C8_ConsecutiveBoundariesDiffer ==
    bar_type = "time" =>
        \A i \in 1..(Len(emits) - 1) :
            MinuteOf(ticks_seen[emits[i].at].date_time)
                # MinuteOf(ticks_seen[emits[i + 1].at].date_time)

\* two rows were written, and the tick right after the one that triggered
\* the first fell in the same minute of the hour, an hour later
C8_Witness ==
    /\ bar_type = "time"
    /\ Len(emits) >= 2
    /\ emits[1].at < Len(ticks_seen)
    /\ ticks_seen[emits[1].at + 1].date_time = ticks_seen[emits[1].at].date_time + 60

\* C9: on the row daily_vol prints for day 21 (lookback + 1), the running sum
\* sma_sum holds 20 returns and the ewma printed is that sum divided by 20.
C9_BootstrapIsMeanOfTwentyReturns ==
    (vol_pc # "idle" /\ dv.n_days = lookback + 1) =>
        /\ n_summed = lookback
        /\ vol_out.last.ewma = FDiv(dv.sma_sum, FInt(lookback))

\* C10: when the last tick of the input triggered a row, the row dollar_bars
\* writes at the end of input is empty: all its numbers are zero.
C10_FlushAfterEmissionIsEmpty ==
    (Returned("dollar") /\ LastTickEmitted) =>
        LET r == Rows[Len(Rows)]
        IN  /\ r.open = 0 /\ r.high = 0 /\ r.low = 0 /\ r.close = 0
            /\ r.volume = 0 /\ r.cum_dollars = 0

\* C11: a run of dollar_bars that returns Ok has written one row per
\* threshold emission and then exactly one row at the end of input, whatever
\* the locals held (no tick at all, or a bar below the threshold); no row of
\* the end of input is written before the end of input.
C11_OneFlushRowAfterThresholdRows ==
    bar_type = "dollar" =>
        /\ Len(Rows) = Len(emits)
        /\ \A i \in DOMAIN emits :
            emits[i].kind = "flush" => (pc = "done" /\ i = Len(emits))
        /\ Returned("dollar") =>
            /\ Len(Rows) = Cardinality(ThresholdRows) + 1
            /\ emits[Len(emits)].kind = "flush"

\* dollar_bars has returned Ok from an input without any tick: the output
\* file holds the one row of the end of input, all zeros
C11_Witness ==
    /\ Returned("dollar")
    /\ ticks_seen = <<>>
    /\ Len(Rows) = 1
    /\ Rows[1].volume = 0

\* C12: in a run of dollar_bars over one input file, every row is the bar of
\* the ticks from the one after the previous emission to the one that
\* triggered it (to the last tick, for the row of the end of input): the
\* triggering tick is its close and is not in the next row, the next row
\* opens at the next tick and holds the volume and the notional of its own
\* ticks only, so that every tick is in exactly one row.
C12_EveryTickInExactlyOneBar ==
    (bar_type = "dollar" /\ file_idx <= 1) =>
        \A i \in DOMAIN emits :
            LET ticks == SubSeq(ticks_seen, BarStart(i), BarEnd(i))
            IN  /\ Rows[i].volume = SumLastSize(ticks)
                /\ Rows[i].cum_dollars = SumDollar(ticks)
                /\ ticks # <<>> =>
                    /\ Rows[i].open = ticks[1].last
                    /\ Rows[i].date_time = ticks[1].date_time
                    /\ Rows[i].close = ticks[Len(ticks)].last

C14_PartialBarSurvivesFileBoundary ==
    (/\ bar_type = "dollar"
     /\ ticks_seen # <<>>
     /\ ~LastTickEmitted
     /\ bs.cumulative_dollar < opts.dollar_threshold) =>
        LET last == IF ThresholdRows = {} THEN 0
                    ELSE emits[Cardinality(ThresholdRows)].at
            ticks == SubSeq(ticks_seen, last + 1, Len(ticks_seen))
        IN  /\ bs.cumulative_volume = SumLastSize(ticks)
            /\ bs.cumulative_dollar = SumDollar(ticks)
            /\ bs.open = ticks[1].last

\* C15: a tick of time_bars triggers a row exactly when its minute of the
\* hour is a multiple of the interval and differs from the minute of the
\* tick that triggered the row before; when no row was written yet no minute
\* is recorded, so the first tick on a boundary minute (minute 0 included)
\* triggers a row.
C15_BoundaryTickEmits ==
    bar_type = "time" =>
        \A k \in DOMAIN ticks_seen :
            LET minute == MinuteOf(ticks_seen[k].date_time)
                before == {i \in DOMAIN emits : emits[i].at < k}
                recorded == ticks_seen[emits[Cardinality(before)].at]
            IN  (\E i \in DOMAIN emits : emits[i].at = k)
                    <=> /\ minute % opts.interval = 0
                        /\ \/ before = {}
                           \/ minute # MinuteOf(recorded.date_time)

\* C16: the open of every row of time_bars is the price of the first tick
\* ingested since the row before it (since the start of the run for the first
\* row), a price of zero included: no later tick of the period re-seeds it.
C16_OpenIsFirstTickOfPeriod ==
    bar_type = "time" =>
        \A i \in DOMAIN emits : Rows[i].open = ticks_seen[BarStart(i)].last

\* C17: the date_time of every row of time_bars is the timestamp of the first
\* tick ingested since the row before it, rounded to the nearest quarter of
\* an hour.
C17_OpenTimeRoundedToQuarter ==
    bar_type = "time" =>
        \A i \in DOMAIN emits :
            Rows[i].date_time = RoundTo15(ticks_seen[BarStart(i)].date_time)

\* C18: in a batch, the run of every line of the symbol list is invoked once,
\* in the order of the list, whatever the runs before it returned: while the
\* run of line sym is under way the runs of the lines before it, and no
\* other, have returned, and at exit every line has had its run.
C18_EveryInstrumentRuns ==
    batch =>
        /\ pc # "idle" => Len(results) = sym - 1
        /\ pc = "idle" => Len(results) = n_symbols
        /\ main_pc = "exit" => Len(results) = n_symbols
        /\ \A i \in DOMAIN results : ~is_err(results[i]) => bars_dir[i].exists
        /\ \A i \in DOMAIN bars_dir : i > sym => ~bars_dir[i].exists

\* the batch has exited; the run of the first line returned an error and the
\* run of a later line wrote its output file and returned Ok
C18_Witness ==
    /\ batch
    /\ main_pc = "exit"
    /\ n_symbols >= 2
    /\ is_err(results[1])
    /\ \E i \in 2..n_symbols :
        ~is_err(results[i]) /\ Len(bars_dir[i].rows) >= 1

\* C19: the step at which a run returns the error of a row that does not
\* parse ends the run and changes nothing else: the row is not ingested, no
\* row is written to the output file (the rows written before stay as they
\* are, and the row of the end of input is not among them), no file of the
\* output directory is removed; nothing happens after it.
C19_ParseFailureEndsTheRun ==
    [][ParseFailed' =>
        /\ pc' = "done"
        /\ ticks_seen' = ticks_seen
        /\ bars_dir' = bars_dir
        /\ emits' = emits
        /\ \A i \in DOMAIN emits : emits[i].kind # "flush"
        /\ siblings' = siblings
        /\ swept' = {}]_vars

\* a run has returned a parse error after it had written a row, beside a
\* file that the sweep of a run that succeeds removes
C19_Witness ==
    /\ ParseFailed
    /\ n_read = Len(ticks_seen) + 1
    /\ Len(Rows) >= 1
    /\ Stale(siblings[sym]) # {}

\* C20 as amended: when dollar_bars has returned Ok, the files its sweep
\* removed from the output directory are those, among the files whose metadata
\* can be read, that are older than 5 minutes; the file just written, every
\* file aged 5 minutes or less and every file whose metadata cannot be read
\* are in place.
C20_SweepRemovesReadableStaleFiles ==
    Returned("dollar") =>
        /\ swept = {f \in siblings[sym] \cup swept :
                        f.metadata /\ f.age > RetentionMinutes}
        /\ siblings[sym] \cap swept = {}
        /\ bars_dir[sym].exists

\* dollar_bars has returned Ok beside a file older than 5 minutes, which is
\* gone, a file of exactly 5 minutes and an older file whose metadata cannot
\* be read, which are in place
C20_Witness ==
    /\ Returned("dollar")
    /\ \E f \in swept : f.age > RetentionMinutes
    /\ \E f \in siblings[sym] : f.metadata /\ f.age = RetentionMinutes
    /\ \E f \in siblings[sym] : ~f.metadata /\ f.age > RetentionMinutes

\* C20: when dollar_bars has returned Ok, the files its sweep removed from
\* the output directory are exactly those older than 5 minutes; the file just
\* written and every file aged 5 minutes or less are in place.
C20_SweepRemovesEveryStaleFile ==
    Returned("dollar") =>
        /\ swept = {f \in siblings[sym] \cup swept : f.age > RetentionMinutes}
        /\ siblings[sym] \cap swept = {}
        /\ bars_dir[sym].exists

\* C21: when a run of either policy has returned Ok, the output directory of
\* the instrument holds no file, beside the one just written, that is older
\* than 5 minutes (stated of the files whose metadata can be read, the only
\* ones whose age the sweep can know).
C21_NoStaleSiblingAfterSuccess ==
    (pc = "done" /\ res = Ok("unit")) =>
        \A f \in siblings[sym] : f.metadata => f.age <= RetentionMinutes

\* C22: daily_vol has printed one row per rollover; a bar rolls the day over
\* exactly when it is more than 24 hours past the anchor (a bar at most 24
\* hours past it leaves the anchor and the rows alone, and the row of a
\* rollover spans more than 24 hours); the anchor is the end of the last row;
\* while n_days <= lookback the ewma of the row printed is "NaN", and
\* afterwards it is not.
C22_OneRowPerRollover ==
    vol_pc # "idle" =>
        /\ vol_out.n_rows = dv.n_days - 1
        /\ bar_time - dv.day_cur >= 0
        /\ bar_time - dv.day_cur <= OneDay
        /\ vol_out.n_rows = 0 => dv.day_cur = 0
        /\ vol_out.n_rows > 0 =>
            /\ vol_out.last.end_date_time - vol_out.last.start_date_time > OneDay
            /\ dv.day_cur = vol_out.last.end_date_time
            /\ (dv.n_days <= lookback) <=> (vol_out.last.ewma = "NaN")

\* daily_vol has printed a row with "NaN" on day lookback, and the bar read
\* since, exactly 24 hours past the anchor, has printed none
C22_Witness ==
    /\ vol_pc # "idle"
    /\ dv.n_days = lookback
    /\ vol_out.n_rows = lookback - 1
    /\ vol_out.last.ewma = "NaN"
    /\ bar_time - dv.day_cur = OneDay

C24_WatermarkCoversStoredTicks ==
    tk.pc = "done" =>
        /\ \A r \in DOMAIN disk.files :
            \A i \in DOMAIN disk.files[r].ticks :
                /\ disk.meta # None
                /\ parse(disk.files[r].ticks[i])
                      <= parse(unwrap(disk.meta).max_date_time)
        /\ \A r1, r2 \in DOMAIN disk.files :
            r1 < r2 =>
                \A i \in DOMAIN disk.files[r1].ticks :
                    \A j \in DOMAIN disk.files[r2].ticks :
                        disk.files[r1].ticks[i] # disk.files[r2].ticks[j]

\* C25: after every run of iqfeed_ticks, however it ended, the tick file the
\* run created is on disk only if it holds at least one tick.
C25_NoEmptyTickFile ==
    tk.pc = "done" => (TickFile.exists => Len(TickFile.ticks) >= 1)

\* C26: check_iqfeed_health returns exactly one result, 0 or 2, decided by
\* the first message on the channel, and returns 0 only if the probe read
\* the line "S,CURRENT PROTOCOL,5.1" before the timeout fired; a connect,
\* write or read error, another line, a connection closed without a line,
\* or the timeout coming first give 2.
C26_HealthyOnlyOnExpectedLine ==
    health.ret # None =>
        /\ unwrap(health.ret) \in {0, 2}
        /\ health.msg # None
        /\ unwrap(health.ret) = 0 <=> unwrap(health.msg) = Ok("unit")
        /\ unwrap(health.ret) = 0 =>
              health.read = Some([kind |-> "line", text |-> ExpectedLine])

=============================================================================
